---- MODULE Spec2Model ----
(***************************************************************************)
(* A model of the CHIP-8 interpreter of src/src/main.rs: the machine state *)
(* of struct Chip8, the decoder, one action per arm of Chip8::execute, and *)
(* Chip8::input_handle.  A Rust panic (index out of bounds, slice range,   *)
(* arithmetic underflow, unimplemented!) ends the process: it is modelled  *)
(* by setting `halted' to the kind of panic, after which nothing moves.    *)
(***************************************************************************)
EXTENDS Integers, Naturals, Sequences, FiniteSets, TLC

VARIABLES
    memory,           \* [u8; 4096]
    registry,         \* [u8; 16]
    stack,            \* [usize; 8]
    key,              \* [bool; 16]
    sub_pointer,      \* usize
    i,                \* usize, the index register
    program_counter,  \* usize
    pixel_map,        \* [[u8; 32]; 64], pixel_map[x][y]
    timer,            \* u8
    since_frame,      \* main: time - last_frame_time, in units of 1/60 s / FrameUnits
    halted,           \* "none", or the panic that ended the process
    call_sites,       \* history: addresses of the 2nnn of the active calls
    timer_start,      \* history: timer value after the last Fx15 (or at start)
    ticks,            \* history: frame-boundary steps completed since then,
                      \*   counted up to timer_start + 1
    draws,            \* history: the draws executed in succession (newest last)
    pending,          \* main: the events delivered to the event pump and not yet polled
    delivered_keys,   \* history: the keypad after every delivered event, in order
    ulp,              \* main: the distance between the f32 values around `time'
    clock,            \* main: the elapsed time, modulo the rounding period of `time'
    frame_age         \* history: the time since the last frame-boundary step

vars == <<memory, registry, stack, key, sub_pointer, i, program_counter,
          pixel_map, timer, since_frame, ulp, clock,
          frame_age, halted, call_sites, timer_start,
          ticks, draws, pending, delivered_keys>>

machine == <<memory, registry, stack, key, sub_pointer, i, program_counter,
             pixel_map, timer>>

-----------------------------------------------------------------------------
(* Program constants *)

MemSize == 4096
NumRegs == 16
StackSize == 8
NumKeys == 16
ScreenW == 64
ScreenH == 32
StartAddr == 512

(* Bounds of the model *)

\* frame_rate_inv (1/60 s) in units of the model's clock
FrameUnits == 2
\* the longest time one iteration of main takes, in the same units
MaxDt == 3
\* how many of the keycodes of KeycodeOrder the input source delivers
NumKeycodes == 2
\* how many delivered events can wait for the next poll
MaxPending == 2

-----------------------------------------------------------------------------
(* Arithmetic on bytes *)

Max(a, b) == IF a >= b THEN a ELSE b
Min(a, b) == IF a <= b THEN a ELSE b

Pow2(k) == CASE k = 0 -> 1 [] k = 1 -> 2 [] k = 2 -> 4 [] k = 3 -> 8
             [] k = 4 -> 16 [] k = 5 -> 32 [] k = 6 -> 64 [] k = 7 -> 128
             [] k = 8 -> 256 [] k = 9 -> 512 [] k = 10 -> 1024
             [] k = 11 -> 2048 [] OTHER -> 4096

Bit(b, k) == (b \div Pow2(k)) % 2

\* bitwise operators on 8-bit values, bit by bit
BitOr(a, b) ==
    LET f[k \in 0..8] ==
          IF k = 8 THEN 0
          ELSE (IF Bit(a, k) = 1 \/ Bit(b, k) = 1 THEN Pow2(k) ELSE 0) + f[k + 1]
    IN f[0]

BitAnd(a, b) ==
    LET f[k \in 0..8] ==
          IF k = 8 THEN 0
          ELSE (IF Bit(a, k) = 1 /\ Bit(b, k) = 1 THEN Pow2(k) ELSE 0) + f[k + 1]
    IN f[0]

BitXor(a, b) ==
    LET f[k \in 0..8] ==
          IF k = 8 THEN 0
          ELSE (IF Bit(a, k) # Bit(b, k) THEN Pow2(k) ELSE 0) + f[k + 1]
    IN f[0]

\* `& 0xFFF' on a non-negative usize
Mask12(a) == a % 4096

-----------------------------------------------------------------------------
(* Decoder *)

\* RawOpCode { v0, v1 } at program_counter; the caller checks the indices
fetch == [v0 |-> memory[program_counter], v1 |-> memory[program_counter + 1]]

\* Chip8::decode: the variant's name and the nibbles c1, c2, c3 it carries
decode(raw) ==
    LET hex == raw.v0 * 256 + raw.v1
        c0 == hex \div 4096
        c1 == (hex \div 256) % 16
        c2 == (hex \div 16) % 16
        c3 == hex % 16
        v(name) == [op |-> name, c1 |-> c1, c2 |-> c2, c3 |-> c3, raw |-> raw]
    IN CASE c0 = 0 -> (CASE c3 = 0 -> v("Clear")
                         [] c3 = 14 -> v("Return")
                         [] OTHER -> v("None"))
         [] c0 = 6 -> v("NormalRegistry")
         [] c0 = 10 -> v("IndexRegistry")
         [] c0 = 7 -> v("AddRegistry")
         [] c0 = 15 -> (CASE raw.v1 = 85 -> v("SaveToMemory")
                          [] raw.v1 = 101 -> v("LoadFromMemory")
                          [] raw.v1 = 30 -> v("AddVxToI")
                          [] raw.v1 = 51 -> v("SaveDigits")
                          [] raw.v1 = 21 -> v("SetTimer")
                          [] raw.v1 = 7 -> v("SaveTimer")
                          [] raw.v1 = 10 -> v("WaitKeyDown")
                          [] OTHER -> v("None"))
         [] c0 = 3 -> v("SkipIfEqualXN")
         [] c0 = 4 -> v("SkipIfNotEqualXN")
         [] c0 = 5 -> v("SkipIfEqualXY")
         [] c0 = 9 -> v("SkipIfNotEqualXY")
         [] c0 = 1 -> v("Jump")
         [] c0 = 11 -> v("JumpOffset")
         [] c0 = 2 -> v("Subroutine")
         [] c0 = 8 -> (CASE c3 = 0 -> v("Set")
                         [] c3 = 1 -> v("Or")
                         [] c3 = 2 -> v("And")
                         [] c3 = 3 -> v("Xor")
                         [] c3 = 4 -> v("Add")
                         [] c3 = 5 -> v("Subtract")
                         [] c3 = 7 -> v("SubtractRev")
                         [] c3 = 6 -> v("ShiftRight")
                         [] c3 = 14 -> v("ShiftLeft")
                         [] OTHER -> v("None"))
         [] c0 = 14 -> (CASE raw.v1 = 158 -> v("SkipIfKeyDown")
                          [] raw.v1 = 161 -> v("SkipIfKeyUp")
                          [] OTHER -> v("None"))
         [] c0 = 13 -> v("Draw")
         [] OTHER -> v("None")

to_decimal(n0, n1, n2) == n0 * 256 + n1 * 16 + n2

-----------------------------------------------------------------------------
(* The methods of Chip8, as the values they compute from the current state *)

set_normal_registry(x, n0, n1) ==
    [registry EXCEPT ![x] = to_decimal(0, n0, n1) % 256]

set_index_registry(n0, n1, n2) == to_decimal(n0, n1, n2)

\* (mutant) the sum saturates at 255 instead of wrapping
add_registry_saturating(x, n0, n1) ==
    [registry EXCEPT ![x] = Min(255, registry[x] + to_decimal(0, n0, n1))]

add_registry(x, n0, n1) ==
    [registry EXCEPT ![x] = (registry[x] + to_decimal(0, n0, n1)) % 256]

\* the range s..e of save_to_memory and load_from_memory
mem_range(x) == [d |-> x + 1, s |-> Mask12(i), e |-> Mask12(i + x + 1)]

\* `memory[s..e]' panics when s > e; the lengths differ in no other case
mem_range_faults(x) == mem_range(x).s > mem_range(x).e

save_to_memory(x) ==
    LET r == mem_range(x)
    IN [a \in 0..(MemSize - 1) |->
          IF r.s <= a /\ a < r.e THEN registry[a - r.s] ELSE memory[a]]

load_from_memory(x) ==
    LET r == mem_range(x)
    IN [k \in 0..(NumRegs - 1) |->
          IF k < r.d THEN memory[r.s + k] ELSE registry[k]]

add_vx_to_i(x) == i + registry[x]

set_timer(x) == registry[x]

\* (mutant) the timer is read after its decrement
save_timer_after(x) == [registry EXCEPT ![x] = Max(0, timer - 1)]

save_timer(x) == [registry EXCEPT ![x] = timer]

\* (mutant) the digits are stored units first
digits_reversed(x) == <<registry[x] % 10, (registry[x] \div 10) % 10, registry[x] \div 100>>

\* the three digits save_digits stores at ci, ci + 1, ci + 2
digits(x) == <<registry[x] \div 100, (registry[x] \div 10) % 10, registry[x] % 10>>

\* save_digits writes cell after cell: a panic at ci + k keeps the k writes before
save_digits(x) ==
    LET ci == Mask12(i)
    IN [a \in 0..(MemSize - 1) |->
          IF a >= ci /\ a <= ci + 2 THEN digits(x)[a - ci + 1] ELSE memory[a]]

save_digits_faults == Mask12(i) + 2 >= MemSize

\* (mutant) the comparison takes the low nibble of nn alone
skip_if_equal_low(x, n0, n1) == registry[x] = n1

skip_if_equal_xn(x, n0, n1) == registry[x] = to_decimal(0, n0, n1) % 256
skip_if_equal_xy(x, y) == registry[x] = registry[y]
skip_if_not_equal_xn(x, n0, n1) == registry[x] # to_decimal(0, n0, n1) % 256
skip_if_not_equal_xy(x, y) == registry[x] # registry[y]

jump(n0, n1, n2) == to_decimal(n0, n1, n2)

jump_offset(n0, n1, n2) == to_decimal(n0, n1, n2) + registry[0]

\* (mutant) the bounds check is off by one
subroutine_faults_late == sub_pointer > StackSize

\* subroutine: `self.stack[self.sub_pointer]' panics when the stack is full
subroutine_faults == sub_pointer >= StackSize

\* (mutant) the address after the call is saved instead
subroutine_saved_next == program_counter + 2

\* the value subroutine saves in the stack slot
subroutine_saved == program_counter

\* return_subroutine: `self.stack[self.sub_pointer - 1]' panics on an empty stack
\* (subtraction overflow in a debug build, index out of bounds in a release one)
return_faults == sub_pointer = 0

\* the counter return_subroutine restores, before execute steps it
return_target == stack[sub_pointer - 1]

set(x, y) == [registry EXCEPT ![x] = registry[y]]

or(x, y) == [[registry EXCEPT ![x] = BitOr(registry[x], registry[y])] EXCEPT ![15] = 0]

and(x, y) == [[registry EXCEPT ![x] = BitAnd(registry[x], registry[y])] EXCEPT ![15] = 0]

xor(x, y) == [[registry EXCEPT ![x] = BitXor(registry[x], registry[y])] EXCEPT ![15] = 0]

\* (mutant) the flag is written before the result, which then overwrites it
\* when x is 0xF
add_flag_first(x, y) ==
    LET n == registry[x] + registry[y]
    IN [[registry EXCEPT ![15] = IF n > 255 THEN 1 ELSE 0] EXCEPT ![x] = n % 256]

add(x, y) ==
    LET n == registry[x] + registry[y]
    IN [[registry EXCEPT ![x] = n % 256] EXCEPT ![15] = IF n > 255 THEN 1 ELSE 0]

subtract(x, y) ==
    LET n == registry[x] - registry[y]
    IN [[registry EXCEPT ![x] = n % 256] EXCEPT ![15] = IF n >= 0 THEN 1 ELSE 0]

subtract_rev(x, y) ==
    LET n == registry[y] - registry[x]
    IN [[registry EXCEPT ![x] = n % 256] EXCEPT ![15] = IF n >= 0 THEN 1 ELSE 0]

shift_left(x, y) ==
    LET r == registry[y]
    IN [[registry EXCEPT ![x] = (r * 2) % 256] EXCEPT ![15] = r \div 128]

shift_right(x, y) ==
    LET r == registry[y]
    IN [[registry EXCEPT ![x] = r \div 2] EXCEPT ![15] = r % 2]

\* `self.key[self.registry[x] as usize]' panics when the register exceeds 15
key_index_faults(x) == registry[x] >= NumKeys

skip_if_keydown(x) == key[registry[x]] = TRUE
skip_if_keyup(x) == key[registry[x]] = FALSE

any_key == \E k \in 0..(NumKeys - 1) : key[k]

\* (mutant) the loop keeps the last held index
last_key == CHOOSE k \in 0..(NumKeys - 1) : key[k] /\ \A j \in (k + 1)..(NumKeys - 1) : ~key[j]

\* the first index the loop of wait_keydown finds held
first_key == CHOOSE k \in 0..(NumKeys - 1) : key[k] /\ \A j \in 0..(k - 1) : ~key[j]

\* (mutant) the counter advances by one byte
step_counter_one(pc) == pc + 1

step_counter(pc) == pc + 2

\* (mutant) the decrement ignores the frame-boundary flag
tick_timer_always(flag, t) == t - (IF t > 0 THEN 1 ELSE 0)

\* (mutant) the decrement wraps below zero as a u8
tick_timer_wrap(flag, t) == IF flag THEN (t - 1) % 256 ELSE t

\* the timer decrement that ends execute
tick_timer(flag, t) ==
    IF flag THEN t - (IF t > 0 THEN 1 ELSE 0) ELSE t

-----------------------------------------------------------------------------
(* Chip8::draw *)

\* (mutant) the position wraps around the screen width
draw_pos_wrap(p, o) == (p + o) % ScreenW

\* dx = px + ox and dy = py + oy, in u8 (at most 63 + 15: no overflow)
draw_pos(p, o) == p + o

\* the cells draw skips with `continue'
draw_outside(dx, dy) == dx >= ScreenW \/ dy >= ScreenH

\* `self.registry[15] = self.pixel_map[dx][dy]' for a sprite bit that is 1
draw_flag(vf, old) == old

\* (mutant) the pixel is set instead of toggled
draw_toggle_or(old, pixel) == BitOr(old, pixel)

\* `self.pixel_map[dx][dy] ^= pixel'
draw_toggle(old, pixel) == BitXor(old, pixel)

\* The two loops of draw from iteration k on (row k \div 8; the inner loop runs
\* ox = 7, 6, .., 0 while bit_row is shifted right, so ox meets bit 7 - ox).
\* `self.memory[idx]' panics when idx leaves the memory: then .fault is TRUE
\* and pm, vf hold what the rows before have done.
RECURSIVE draw_from(_, _, _, _, _, _)
draw_from(k, n, px, py, pm, vf) ==
    IF k >= n * 8 THEN [pm |-> pm, vf |-> vf, fault |-> FALSE]
    ELSE LET oy == k \div 8
             ox == 7 - (k % 8)
             idx == oy + i
         IN IF idx >= MemSize THEN [pm |-> pm, vf |-> vf, fault |-> TRUE]
            ELSE LET pixel == Bit(memory[idx], k % 8)
                     dx == draw_pos(px, ox)
                     dy == draw_pos(py, oy)
                 IN IF draw_outside(dx, dy)
                    THEN draw_from(k + 1, n, px, py, pm, vf)
                    ELSE draw_from(k + 1, n, px, py,
                            [pm EXCEPT ![dx][dy] = draw_toggle(@, pixel)],
                            IF pixel = 1 THEN draw_flag(vf, pm[dx][dy]) ELSE vf)

draw(x, y, n) ==
    draw_from(0, n, registry[x] % 64, registry[y] % 32, pixel_map, registry[15])

-----------------------------------------------------------------------------
(* Chip8::new and Chip8::load *)

\* the bytes of a sequence of 16-bit words, high byte first
Bytes(words) ==
    [k \in 1..(2 * Len(words)) |->
       IF k % 2 = 1 THEN words[(k + 1) \div 2] \div 256 ELSE words[k \div 2] % 256]

\* memory after load: data copied to start.., zero elsewhere
load(data) ==
    [a \in 0..(MemSize - 1) |->
       IF a >= StartAddr /\ a < StartAddr + Len(data)
       THEN data[a - StartAddr + 1] ELSE 0]

-----------------------------------------------------------------------------
(* The programs the model loads: the input of Chip8::load *)

\* a chain of nested calls: the call at 0x200 + 4k enters 0x204 + 4k, the
\* innermost body returns at once, every outer body returns after its call,
\* and the instruction after the outermost call loops on itself
CallChain(depth) ==
    [j \in 1..(2 * depth + 1) |->
       IF j = 2 * depth + 1 THEN \h00EE
       ELSE IF j % 2 = 1 THEN \h2000 + \h0200 + 4 * ((j + 1) \div 2)
       ELSE IF j = 2 THEN \h1202
       ELSE \h00EE]

CallDepths == {1, 2, StackSize, StackSize + 1}

\* V0 = vx, V1 = vy; draw sprite 1, sprite 2, sprite 2 again, sprite 1, all
\* with n rows at (V0, V1); sprite 1 is the bytes b1 b2, sprite 2 is b2 b1
DrawRom(b1, b2, vx, vy, n) ==
    << \h6000 + vx, \h6100 + vy,
       \hA214, \hD010 + n,
       \hA216, \hD010 + n, \hD010 + n,
       \hA214, \hD010 + n,
       \h1212,
       b1 * 256 + b2, b2 * 256 + b1 >>

SpriteBytes == {\h00, \h40, \hC0, \hFF}

\* the positions and heights drawn: <<V0, V1, n>>
DrawShapes == {<<0, 0, 1>>, <<124, 63, 2>>}

\* set the timer to v, read it, wait for a key, test that key, clear, set again
TimerRom(v) ==
    << \h6000 + v, \hF015, \hF107, \hF20A, \hE29E, \hF107, \hE2A1, \h00E0,
       \hF015, \h1212 >>

TimerValues == {0, 2}

\* every other instruction once, skips followed by an instruction to skip
SinkRom ==
    << \h6005, \h61FA, \h8010, \h8011, \h8012, \h8013, \h8014, \h8015, \h8017,
       \h8016, \h801E, \h7003, \h3003, \h6200, \h4003, \h6200, \h5010, \h6200,
       \h9010, \h6200, \hA300, \hF11E, \hF133, \hF155, \hA300, \hF165, \h6002,
       \hB236, \h1238 >>

\* programs that end in a panic, or reach the ends of memory and the stack
EdgeRoms ==
    { << \h00EE >>, << \h2204, \h00EE, \h00EE >>, << \h2200 >>,
      << \h0001 >>, << \hFFFF >>,
      << \h1FFE >>, << \h1FFF >>, << \h60FF, \hBFFF >>,
      << \hAFFF, \hF055 >>, << \hAFFF, \hF065 >>, << \hAFFE, \hF033 >>,
      << \hAFFD, \hF033, \h1204 >>,
      << \hAFFF, \hD012 >>, << \hAFFF, \h60FF, \hF01E, \hF033, \hD011 >>,
      << \h60FF, \hE09E >>, << \h60FF, \hE0A1 >>,
      << \h00E0, \hD001, \h1204 >> }

Roms ==
    {CallChain(d) : d \in CallDepths}
    \cup {DrawRom(b1, b2, sh[1], sh[2], sh[3]) :
            b1 \in SpriteBytes, b2 \in SpriteBytes, sh \in DrawShapes}
    \cup {DrawRom(\hFF, \hFF, 0, 0, 0)}
    \cup {TimerRom(v) : v \in TimerValues}
    \cup {SinkRom}
    \cup EdgeRoms

Init ==
    /\ \E rom \in Roms : memory = load(Bytes(rom))
    /\ registry = [k \in 0..(NumRegs - 1) |-> 0]
    /\ stack = [k \in 0..(StackSize - 1) |-> 0]
    /\ key = [k \in 0..(NumKeys - 1) |-> FALSE]
    /\ sub_pointer = 0
    /\ i = 0
    /\ program_counter = StartAddr
    /\ pixel_map = [x \in 0..(ScreenW - 1) |-> [y \in 0..(ScreenH - 1) |-> 0]]
    /\ timer = 0
    /\ since_frame = 0
    /\ halted = "none"
    /\ call_sites = << >>
    /\ timer_start = 0
    /\ ticks = 0
    /\ draws = << >>
    /\ pending = << >>
    /\ delivered_keys = key
    /\ ulp = 1
    /\ clock = 0
    /\ frame_age = 0

-----------------------------------------------------------------------------
(* Chip8::execute(allow_display): one action per arm of the match; the arm   *)
(* takes the time dt main measured, from which main computes allow_display   *)

\* `self.memory[self.program_counter + 1]' (or the byte before it) panics
fetch_faults == program_counter + 1 >= MemSize

opcode == decode(fetch)

\* execute runs the arm `name'
Arm(name) == halted = "none" /\ ~fetch_faults /\ opcode.op = name

\* main, line 41: Duration::as_secs_f32 rounds the elapsed time to the nearest
\* f32 value, ties to the value with an even mantissa.  t is the elapsed time
\* counted from a value with an even mantissa, the f32 values are ulp apart
as_secs_f32(t) ==
    LET q == t \div ulp
        f == t % ulp
        up == 2 * f > ulp \/ (2 * f = ulp /\ q % 2 = 1)
    IN (q + (IF up THEN 1 ELSE 0)) * ulp

\* the elapsed time, modulo this, is all the rounding depends on (with ulp = 1
\* every time of the clock is an f32 value)
period == IF ulp = 1 THEN 1 ELSE 2 * ulp

\* by how much `time' of this iteration exceeds `time' of the previous one,
\* when the clock has advanced by dt in between
time_step(dt) == as_secs_f32(clock + dt) - as_secs_f32(clock)

\* (mutant) no iteration finds a frame boundary
allow_display_never(dt) == FALSE

\* main, lines 41-42: dt is the time that has passed since the previous
\* iteration read the clock, since_frame that iteration's time - last_frame_time
allow_display(dt) == since_frame + time_step(dt) > FrameUnits

\* the process panics: nothing but the changes made before the panic remains
Panic(kind) ==
    /\ halted' = kind
    /\ draws' = << >>
    /\ UNCHANGED <<key, sub_pointer, i, program_counter, stack, timer,
                   since_frame, ulp, clock,
                   frame_age, call_sites, timer_start, ticks, pending,
                   delivered_keys>>

\* the end of execute, lines 618-620, and of the iteration of main, lines 47-49
Finish(dt, t) ==
    /\ timer' = tick_timer(allow_display(dt), t)
    /\ since_frame' = IF allow_display(dt) THEN 0 ELSE since_frame + time_step(dt)
    /\ clock' = (clock + dt) % period
    /\ frame_age' = IF allow_display(dt) THEN 0 ELSE Min(frame_age + dt, FrameUnits + 1)
    /\ halted' = halted
    /\ key' = key
    /\ UNCHANGED <<pending, delivered_keys, ulp>>

\* history: one more frame-boundary step completed (the count stops at
\* timer_start + 1: from there on the timer has run out whatever the count)
Count(dt) ==
    ticks' = IF allow_display(dt) THEN Min(ticks + 1, timer_start + 1) ELSE ticks

\* a completed step of an instruction that is neither Fx15, a call, a return
\* nor a draw
Plain(dt) ==
    /\ Finish(dt, timer)
    /\ Count(dt)
    /\ UNCHANGED <<timer_start, call_sites>>
    /\ draws' = << >>

FetchPanic ==
    /\ halted = "none" /\ fetch_faults
    /\ Panic("fetch: index out of bounds")
    /\ UNCHANGED <<memory, registry, pixel_map>>

Clear(dt) ==
    /\ Arm("Clear")
    /\ IF allow_display(dt)
       THEN /\ pixel_map' = [x \in 0..(ScreenW - 1) |-> [y \in 0..(ScreenH - 1) |-> 0]]
            /\ program_counter' = step_counter(program_counter)
            /\ draws' = << >>
       ELSE UNCHANGED <<pixel_map, program_counter, draws>>
    /\ Finish(dt, timer)
    /\ Count(dt)
    /\ UNCHANGED <<memory, registry, stack, sub_pointer, i, timer_start, call_sites>>

Return(dt) ==
    /\ Arm("Return")
    /\ IF return_faults
       THEN /\ Panic("return_subroutine: stack index out of bounds")
            /\ UNCHANGED <<memory, registry, pixel_map>>
       ELSE /\ program_counter' = step_counter(return_target)
            /\ stack' = [stack EXCEPT ![sub_pointer - 1] = 0]
            /\ sub_pointer' = sub_pointer - 1
            /\ call_sites' = SubSeq(call_sites, 1, Len(call_sites) - 1)
            /\ Finish(dt, timer)
            /\ Count(dt)
            /\ draws' = << >>
            /\ UNCHANGED <<memory, registry, i, pixel_map, timer_start>>

NormalRegistry(dt) ==
    /\ Arm("NormalRegistry")
    /\ registry' = set_normal_registry(opcode.c1, opcode.c2, opcode.c3)
    /\ program_counter' = step_counter(program_counter)
    /\ Plain(dt)
    /\ UNCHANGED <<memory, stack, sub_pointer, i, pixel_map>>

IndexRegistry(dt) ==
    /\ Arm("IndexRegistry")
    /\ i' = set_index_registry(opcode.c1, opcode.c2, opcode.c3)
    /\ program_counter' = step_counter(program_counter)
    /\ Plain(dt)
    /\ UNCHANGED <<memory, registry, stack, sub_pointer, pixel_map>>

AddRegistry(dt) ==
    /\ Arm("AddRegistry")
    /\ registry' = add_registry(opcode.c1, opcode.c2, opcode.c3)
    /\ program_counter' = step_counter(program_counter)
    /\ Plain(dt)
    /\ UNCHANGED <<memory, stack, sub_pointer, i, pixel_map>>

SaveToMemory(dt) ==
    /\ Arm("SaveToMemory")
    /\ IF mem_range_faults(opcode.c1)
       THEN /\ Panic("save_to_memory: slice index out of range")
            /\ UNCHANGED <<memory, registry, pixel_map>>
       ELSE /\ memory' = save_to_memory(opcode.c1)
            /\ i' = i + mem_range(opcode.c1).d
            /\ program_counter' = step_counter(program_counter)
            /\ Plain(dt)
            /\ UNCHANGED <<registry, stack, sub_pointer, pixel_map>>

LoadFromMemory(dt) ==
    /\ Arm("LoadFromMemory")
    /\ IF mem_range_faults(opcode.c1)
       THEN /\ Panic("load_from_memory: slice index out of range")
            /\ UNCHANGED <<memory, registry, pixel_map>>
       ELSE /\ registry' = load_from_memory(opcode.c1)
            /\ i' = i + mem_range(opcode.c1).d
            /\ program_counter' = step_counter(program_counter)
            /\ Plain(dt)
            /\ UNCHANGED <<memory, stack, sub_pointer, pixel_map>>

AddVxToI(dt) ==
    /\ Arm("AddVxToI")
    /\ i' = add_vx_to_i(opcode.c1)
    /\ program_counter' = step_counter(program_counter)
    /\ Plain(dt)
    /\ UNCHANGED <<memory, registry, stack, sub_pointer, pixel_map>>

SetTimer(dt) ==
    /\ Arm("SetTimer")
    /\ Finish(dt, set_timer(opcode.c1))
    /\ timer_start' = timer'
    /\ ticks' = 0
    /\ program_counter' = step_counter(program_counter)
    /\ draws' = << >>
    /\ UNCHANGED <<memory, registry, stack, sub_pointer, i, pixel_map, call_sites>>

SaveTimer(dt) ==
    /\ Arm("SaveTimer")
    /\ registry' = save_timer(opcode.c1)
    /\ program_counter' = step_counter(program_counter)
    /\ Plain(dt)
    /\ UNCHANGED <<memory, stack, sub_pointer, i, pixel_map>>

SaveDigits(dt) ==
    /\ Arm("SaveDigits")
    /\ memory' = save_digits(opcode.c1)
    /\ IF save_digits_faults
       THEN /\ Panic("save_digits: index out of bounds")
            /\ UNCHANGED <<registry, pixel_map>>
       ELSE /\ program_counter' = step_counter(program_counter)
            /\ Plain(dt)
            /\ UNCHANGED <<registry, stack, sub_pointer, i, pixel_map>>

SkipIfEqualXN(dt) ==
    /\ Arm("SkipIfEqualXN")
    /\ program_counter' = step_counter(IF skip_if_equal_xn(opcode.c1, opcode.c2, opcode.c3)
                                       THEN step_counter(program_counter)
                                       ELSE program_counter)
    /\ Plain(dt)
    /\ UNCHANGED <<memory, registry, stack, sub_pointer, i, pixel_map>>

SkipIfNotEqualXN(dt) ==
    /\ Arm("SkipIfNotEqualXN")
    /\ program_counter' = step_counter(IF skip_if_not_equal_xn(opcode.c1, opcode.c2, opcode.c3)
                                       THEN step_counter(program_counter)
                                       ELSE program_counter)
    /\ Plain(dt)
    /\ UNCHANGED <<memory, registry, stack, sub_pointer, i, pixel_map>>

SkipIfEqualXY(dt) ==
    /\ Arm("SkipIfEqualXY")
    /\ program_counter' = step_counter(IF skip_if_equal_xy(opcode.c1, opcode.c2)
                                       THEN step_counter(program_counter)
                                       ELSE program_counter)
    /\ Plain(dt)
    /\ UNCHANGED <<memory, registry, stack, sub_pointer, i, pixel_map>>

SkipIfNotEqualXY(dt) ==
    /\ Arm("SkipIfNotEqualXY")
    /\ program_counter' = step_counter(IF skip_if_not_equal_xy(opcode.c1, opcode.c2)
                                       THEN step_counter(program_counter)
                                       ELSE program_counter)
    /\ Plain(dt)
    /\ UNCHANGED <<memory, registry, stack, sub_pointer, i, pixel_map>>

Jump(dt) ==
    /\ Arm("Jump")
    /\ program_counter' = jump(opcode.c1, opcode.c2, opcode.c3)
    /\ Plain(dt)
    /\ UNCHANGED <<memory, registry, stack, sub_pointer, i, pixel_map>>

JumpOffset(dt) ==
    /\ Arm("JumpOffset")
    /\ program_counter' = jump_offset(opcode.c1, opcode.c2, opcode.c3)
    /\ Plain(dt)
    /\ UNCHANGED <<memory, registry, stack, sub_pointer, i, pixel_map>>

Subroutine(dt) ==
    /\ Arm("Subroutine")
    /\ IF subroutine_faults
       THEN /\ Panic("subroutine: stack index out of bounds")
            /\ UNCHANGED <<memory, registry, pixel_map>>
       ELSE /\ stack' = [stack EXCEPT ![sub_pointer] = subroutine_saved]
            /\ sub_pointer' = sub_pointer + 1
            /\ program_counter' = jump(opcode.c1, opcode.c2, opcode.c3)
            /\ call_sites' = Append(call_sites, program_counter)
            /\ Finish(dt, timer)
            /\ Count(dt)
            /\ draws' = << >>
            /\ UNCHANGED <<memory, registry, i, pixel_map, timer_start>>

Set(dt) ==
    /\ Arm("Set")
    /\ registry' = set(opcode.c1, opcode.c2)
    /\ program_counter' = step_counter(program_counter)
    /\ Plain(dt)
    /\ UNCHANGED <<memory, stack, sub_pointer, i, pixel_map>>

Or(dt) ==
    /\ Arm("Or")
    /\ registry' = or(opcode.c1, opcode.c2)
    /\ program_counter' = step_counter(program_counter)
    /\ Plain(dt)
    /\ UNCHANGED <<memory, stack, sub_pointer, i, pixel_map>>

And(dt) ==
    /\ Arm("And")
    /\ registry' = and(opcode.c1, opcode.c2)
    /\ program_counter' = step_counter(program_counter)
    /\ Plain(dt)
    /\ UNCHANGED <<memory, stack, sub_pointer, i, pixel_map>>

Xor(dt) ==
    /\ Arm("Xor")
    /\ registry' = xor(opcode.c1, opcode.c2)
    /\ program_counter' = step_counter(program_counter)
    /\ Plain(dt)
    /\ UNCHANGED <<memory, stack, sub_pointer, i, pixel_map>>

Add(dt) ==
    /\ Arm("Add")
    /\ registry' = add(opcode.c1, opcode.c2)
    /\ program_counter' = step_counter(program_counter)
    /\ Plain(dt)
    /\ UNCHANGED <<memory, stack, sub_pointer, i, pixel_map>>

Subtract(dt) ==
    /\ Arm("Subtract")
    /\ registry' = subtract(opcode.c1, opcode.c2)
    /\ program_counter' = step_counter(program_counter)
    /\ Plain(dt)
    /\ UNCHANGED <<memory, stack, sub_pointer, i, pixel_map>>

SubtractRev(dt) ==
    /\ Arm("SubtractRev")
    /\ registry' = subtract_rev(opcode.c1, opcode.c2)
    /\ program_counter' = step_counter(program_counter)
    /\ Plain(dt)
    /\ UNCHANGED <<memory, stack, sub_pointer, i, pixel_map>>

ShiftRight(dt) ==
    /\ Arm("ShiftRight")
    /\ registry' = shift_right(opcode.c1, opcode.c2)
    /\ program_counter' = step_counter(program_counter)
    /\ Plain(dt)
    /\ UNCHANGED <<memory, stack, sub_pointer, i, pixel_map>>

ShiftLeft(dt) ==
    /\ Arm("ShiftLeft")
    /\ registry' = shift_left(opcode.c1, opcode.c2)
    /\ program_counter' = step_counter(program_counter)
    /\ Plain(dt)
    /\ UNCHANGED <<memory, stack, sub_pointer, i, pixel_map>>

SkipIfKeyDown(dt) ==
    /\ Arm("SkipIfKeyDown")
    /\ IF key_index_faults(opcode.c1)
       THEN /\ Panic("skip_if_keydown: key index out of bounds")
            /\ UNCHANGED <<memory, registry, pixel_map>>
       ELSE /\ program_counter' = step_counter(IF skip_if_keydown(opcode.c1)
                                               THEN step_counter(program_counter)
                                               ELSE program_counter)
            /\ Plain(dt)
            /\ UNCHANGED <<memory, registry, stack, sub_pointer, i, pixel_map>>

SkipIfKeyUp(dt) ==
    /\ Arm("SkipIfKeyUp")
    /\ IF key_index_faults(opcode.c1)
       THEN /\ Panic("skip_if_keyup: key index out of bounds")
            /\ UNCHANGED <<memory, registry, pixel_map>>
       ELSE /\ program_counter' = step_counter(IF skip_if_keyup(opcode.c1)
                                               THEN step_counter(program_counter)
                                               ELSE program_counter)
            /\ Plain(dt)
            /\ UNCHANGED <<memory, registry, stack, sub_pointer, i, pixel_map>>

WaitKeyDown(dt) ==
    /\ Arm("WaitKeyDown")
    /\ IF any_key
       THEN /\ registry' = [registry EXCEPT ![opcode.c1] = first_key]
            /\ program_counter' = step_counter(program_counter)
            /\ draws' = << >>
       ELSE UNCHANGED <<registry, program_counter, draws>>
    /\ Finish(dt, timer)
    /\ Count(dt)
    /\ UNCHANGED <<memory, stack, sub_pointer, i, pixel_map, timer_start, call_sites>>

\* what the history keeps of an executed draw
DrawRecord(x, y, n, d) ==
    [before |-> pixel_map, vx |-> registry[x], vy |-> registry[y], n |-> n,
     i |-> i, rows |-> [r \in 0..(n - 1) |-> memory[i + r]], vf |-> d.vf]

Draw(dt) ==
    /\ Arm("Draw")
    /\ IF allow_display(dt)
       THEN LET d == draw(opcode.c1, opcode.c2, opcode.c3)
            IN /\ pixel_map' = d.pm
               /\ registry' = [registry EXCEPT ![15] = d.vf]
               /\ IF d.fault
                  THEN Panic("draw: index out of bounds")
                  ELSE /\ program_counter' = step_counter(program_counter)
                       /\ Finish(dt, timer)
                       /\ Count(dt)
                       /\ draws' = (IF draws = << >> THEN << >> ELSE << draws[Len(draws)] >>)
                              \o << DrawRecord(opcode.c1, opcode.c2, opcode.c3, d) >>
                       /\ UNCHANGED <<stack, sub_pointer, i, timer_start, call_sites>>
       ELSE /\ Finish(dt, timer)
            /\ Count(dt)
            /\ UNCHANGED <<registry, stack, sub_pointer, i, program_counter,
                           pixel_map, timer_start, call_sites, draws>>
    /\ memory' = memory

None(dt) ==
    /\ Arm("None")
    /\ Panic("unimplemented")
    /\ UNCHANGED <<memory, registry, pixel_map>>

execute(dt) ==
    \/ FetchPanic
    \/ Clear(dt)
    \/ Return(dt)
    \/ NormalRegistry(dt)
    \/ IndexRegistry(dt)
    \/ AddRegistry(dt)
    \/ SaveToMemory(dt)
    \/ LoadFromMemory(dt)
    \/ AddVxToI(dt)
    \/ SetTimer(dt)
    \/ SaveTimer(dt)
    \/ SaveDigits(dt)
    \/ SkipIfEqualXN(dt)
    \/ SkipIfNotEqualXN(dt)
    \/ SkipIfEqualXY(dt)
    \/ SkipIfNotEqualXY(dt)
    \/ Jump(dt)
    \/ JumpOffset(dt)
    \/ Subroutine(dt)
    \/ Set(dt)
    \/ Or(dt)
    \/ And(dt)
    \/ Xor(dt)
    \/ Add(dt)
    \/ Subtract(dt)
    \/ SubtractRev(dt)
    \/ ShiftRight(dt)
    \/ ShiftLeft(dt)
    \/ SkipIfKeyDown(dt)
    \/ SkipIfKeyUp(dt)
    \/ WaitKeyDown(dt)
    \/ Draw(dt)
    \/ None(dt)

-----------------------------------------------------------------------------
(* Chip8::input_handle, called by main for every polled event before execute *)

\* the keycodes input_handle maps, in the order of its match arms
KeycodeOrder ==
    << "_1", "_2", "_3", "_4", "Q", "W", "E", "R",
       "A", "S", "D", "F", "Z", "X", "C", "V" >>

\* the keypad index of each arm
KeyIndex ==
    << 1, 2, 3, 12, 4, 5, 6, 13, 7, 8, 9, 14, 10, 0, 11, 15 >>

\* the events the input source delivers: key down and key up of the first
\* NumKeycodes keycodes and of a keycode input_handle does not map
Events ==
    [kind : {"KeyDown", "KeyUp"},
     keycode : {KeycodeOrder[k] : k \in 1..NumKeycodes} \cup {"Escape"}]

\* the keypad input_handle leaves when it finds the keypad k
key_after(k, event) ==
    IF /\ event.kind \in {"KeyDown", "KeyUp"}
       /\ \E n \in 1..Len(KeycodeOrder) : KeycodeOrder[n] = event.keycode
    THEN LET n == CHOOSE n \in 1..Len(KeycodeOrder) : KeycodeOrder[n] = event.keycode
         IN [k EXCEPT ![KeyIndex[n]] = (event.kind = "KeyDown")]
    ELSE k

input_handle(event) ==
    /\ halted = "none"
    /\ key' = key_after(key, event)
    /\ UNCHANGED <<memory, registry, stack, sub_pointer, i, program_counter,
                   pixel_map, timer, since_frame, ulp, clock,
                   frame_age, halted, call_sites, timer_start,
                   ticks, draws>>

-----------------------------------------------------------------------------
(* main: every iteration of the loop hands the polled events to input_handle, *)
(* reads the clock and calls execute with the frame-boundary flag.  In Spec   *)
(* no event waits in the queue: each is polled as it is delivered, and no     *)
(* Quit event arrives                                                         *)

\* an event that is delivered while main polls: poll_iter returns it at once
Arrive(event) ==
    /\ pending = << >>
    /\ input_handle(event)
    /\ pending' = pending
    /\ delivered_keys' = key_after(delivered_keys, event)

Next ==
    \/ \E dt \in 0..MaxDt : execute(dt)
    \/ \E event \in Events : Arrive(event)

Spec == Init /\ [][Next]_vars

-----------------------------------------------------------------------------
(* Single instructions on drawn machine states: the machine is about to      *)
(* execute the word at 0x200 with registers, I and keypad drawn from bounded *)
(* sets (every such state can be set up by 6xnn, Annn, Fx1E and key events), *)
(* and main runs execute with no event arriving                              *)

ZeroRegs == [k \in 0..(NumRegs - 1) |-> 0]

NoKeys == [k \in 0..(NumKeys - 1) |-> FALSE]

\* the keypad with exactly the keys of the set held
Held(keys) == [k \in 0..(NumKeys - 1) |-> k \in keys]

\* the registers with Vx = a and then Vy = b, zero elsewhere
Regs2(x, a, y, b) == [[ZeroRegs EXCEPT ![x] = a] EXCEPT ![y] = b]

\* one instruction, followed by a jump to itself at each address it can
\* continue at (the next instruction, and the one after a skip)
OneWord(w) == << w, \h1202, \h1204 >>

UnitCase(prog, regs, idx, keys) ==
    [prog |-> prog, registry |-> regs, i |-> idx, key |-> keys]

\* the register values drawn
ByteValues == {0, 1, 5, 10, 129, 255}

\* the low bytes drawn for the families 0xE and 0xF: the seven low bytes of
\* 0xF and the two of 0xE that decode matches, and others
LowBytes ==
    {\h07, \h0A, \h15, \h1E, \h33, \h55, \h65, \h9E, \hA1,
     \h00, \h18, \h29, \h56, \h9F, \hA0, \hE0, \hEE, \hFF}

\* instruction words over every top nibble, with every low nibble in the
\* families decode dispatches on the low nibble
DecodeWords ==
    {c1 * 256 + v1 : c1 \in {0, 1}, v1 \in (0..15) \cup (224..239)}
    \cup {c0 * 4096 + 16 + c3 : c0 \in {5, 8, 9}, c3 \in 0..15}
    \cup {c0 * 4096 + v1 : c0 \in {14, 15}, v1 \in LowBytes}
    \cup {c0 * 4096 + v1 : c0 \in {3, 4, 6, 7, 10, 12}, v1 \in {0, 1, 238}}
    \cup {\hD000, \hD001, \hD012, \h1202, \h2202, \hB202, \h1FFF}

DecodeCases ==
    {UnitCase(OneWord(w), ZeroRegs, 768, NoKeys) : w \in DecodeWords}

\* 8xy4, 8xy5, 8xy6, 8xy7, 8xyE over register pairs with and without VF
AluCases ==
    {UnitCase(OneWord(\h8000 + xy[1] * 256 + xy[2] * 16 + c3),
              Regs2(xy[1], a, xy[2], b), 768, NoKeys) :
       xy \in {<<0, 1>>, <<1, 1>>, <<15, 1>>, <<1, 15>>, <<15, 15>>},
       c3 \in {4, 5, 6, 7, 14}, a \in ByteValues, b \in ByteValues}

\* 7xnn on a drawn Vx, and 6xnn followed by 7x with the immediate that
\* wraps Vx to zero; VF is 9 and V2 is 7 before
AddCases ==
    {UnitCase(OneWord(\h7000 + x * 256 + nn),
              [Regs2(x, a, 2, 7) EXCEPT ![15] = 9], 768, NoKeys) :
       x \in {0, 14}, a \in ByteValues, nn \in ByteValues}
    \cup {UnitCase(<< \h6000 + x * 256 + nn, \h7000 + x * 256 + ((256 - nn) % 256),
                      \h1204 >>, [ZeroRegs EXCEPT ![15] = 9], 768, NoKeys) :
            x \in {0, 14}, nn \in ByteValues}

\* the six skips: immediates and registers equal and different, keys held
\* and not held, and key indices outside the keypad
SkipCases ==
    {UnitCase(OneWord(c0 * 4096 + nn), Regs2(0, a, 15, 9), 768, NoKeys) :
       c0 \in {3, 4}, a \in ByteValues, nn \in ByteValues}
    \cup {UnitCase(OneWord(c0 * 4096 + xy[1] * 256 + xy[2] * 16),
                   Regs2(xy[1], a, xy[2], b), 768, NoKeys) :
            c0 \in {5, 9}, xy \in {<<0, 1>>, <<1, 1>>, <<15, 1>>},
            a \in {0, 5, 255}, b \in {0, 5, 255}}
    \cup {UnitCase(OneWord(\hE000 + x * 256 + v1), Regs2(x, a, x, a), 768, Held(keys)) :
            x \in {0, 3}, v1 \in {\h9E, \hA1}, a \in {0, 1, 15, 16, 255},
            keys \in {{}, {0}, {1, 15}, 0..15}}

\* the I values drawn: inside the memory, at its end, and past it (Fx1E)
IndexValues == {768, 4093, 4094, 4095, 4350}

\* Fx1E, Fx33, Fx55 and Fx65 at the I values (Fx65 also on the bytes of the
\* program); V0, V1, .. hold 17, 18, .. except the Vx of Fx1E and Fx33
IndexCases ==
    {UnitCase(OneWord(\hF000 + 256 + v1),
              [[k \in 0..(NumRegs - 1) |-> 17 + k] EXCEPT ![1] = a], idx, NoKeys) :
       v1 \in {\h1E, \h33}, a \in ByteValues, idx \in IndexValues}
    \cup {UnitCase(OneWord(\hF000 + x * 256 + v1),
                   [k \in 0..(NumRegs - 1) |-> 17 + k], idx - d, NoKeys) :
            x \in {0, 1, 15}, v1 \in {\h55, \h65}, idx \in IndexValues,
            d \in {0, 1, 15, 16}}
    \cup {UnitCase(OneWord(\hF065 + x * 256),
                   [k \in 0..(NumRegs - 1) |-> 17 + k], 512 - d, NoKeys) :
            x \in {0, 1, 15}, d \in {0, 1, 15, 16}}

\* V0..Vx hold 17, 18, ..: store them at nnn, zero V0 and Vx, reset I, load
RoundTrip(x, nnn) ==
    << \hA000 + nnn, \hF055 + x * 256, \h6000, \h6000 + x * 256,
       \hA000 + nnn, \hF065 + x * 256, \h120C >>

RoundTripCases ==
    {UnitCase(RoundTrip(x, nnn - x), [k \in 0..(NumRegs - 1) |-> 17 + k], 0, NoKeys) :
       x \in {0, 1, 15}, nnn \in {768, 4094, 4095}}

\* timer = Vx, two reads of the timer into Vy, timer = 0, stop
TimerProgram(x, y) ==
    << \hF015 + x * 256, \hF007 + y * 256, \hF007 + y * 256,
       \h6000 + x * 256, \hF015 + x * 256, \h120A >>

TimerCases ==
    {UnitCase(TimerProgram(xy[1], xy[2]), Regs2(xy[1], a, xy[2], 77), 768, NoKeys) :
       xy \in {<<0, 1>>, <<15, 14>>}, a \in {0, 1, 2, 255}}

UnitCases ==
    DecodeCases \cup AluCases \cup AddCases \cup SkipCases \cup IndexCases
    \cup RoundTripCases \cup TimerCases

UnitInit ==
    /\ \E c \in UnitCases :
          /\ memory = load(Bytes(c.prog))
          /\ registry = c.registry
          /\ i = c.i
          /\ key = c.key
    /\ stack = [k \in 0..(StackSize - 1) |-> 0]
    /\ sub_pointer = 0
    /\ program_counter = StartAddr
    /\ pixel_map = [x \in 0..(ScreenW - 1) |-> [y \in 0..(ScreenH - 1) |-> 0]]
    /\ timer = 0
    /\ since_frame = 0
    /\ halted = "none"
    /\ call_sites = << >>
    /\ timer_start = 0
    /\ ticks = 0
    /\ draws = << >>
    /\ pending = << >>
    /\ delivered_keys = key
    /\ ulp = 1
    /\ clock = 0
    /\ frame_age = 0

UnitNext == \E dt \in 0..MaxDt : execute(dt)

UnitSpec == UnitInit /\ [][UnitNext]_vars

-----------------------------------------------------------------------------
(* main with its event queue: events are delivered at any time, every         *)
(* iteration of the loop polls the queue until it is empty (a Quit event      *)
(* leaves the loop) and then runs execute.  The program waits for a key and   *)
(* tests it with both key skips                                               *)

\* Fx0A into V0, skip when key V0 is held, skip when it is not
KeyRom == << \hF00A, \hE09E, \h1200, \hE0A1, \h1206, \h1200 >>

QuitEvent == [kind |-> "Quit", keycode |-> "none"]

\* key down and key up of the first mapped keycode and of a keycode that is
\* not mapped, and Quit
LoopEvents ==
    {e \in Events : e.keycode \in {KeycodeOrder[1], "Escape"}} \cup {QuitEvent}

LoopInit ==
    /\ memory = load(Bytes(KeyRom))
    /\ registry = ZeroRegs
    /\ i = 0
    /\ key = NoKeys
    /\ stack = [k \in 0..(StackSize - 1) |-> 0]
    /\ sub_pointer = 0
    /\ program_counter = StartAddr
    /\ pixel_map = [x \in 0..(ScreenW - 1) |-> [y \in 0..(ScreenH - 1) |-> 0]]
    /\ timer = 0
    /\ since_frame = 0
    /\ halted = "none"
    /\ call_sites = << >>
    /\ timer_start = 0
    /\ ticks = 0
    /\ draws = << >>
    /\ pending = << >>
    /\ delivered_keys = key
    /\ ulp = 1
    /\ clock = 0
    /\ frame_age = 0

\* the input source puts an event at the end of the queue
Deliver(event) ==
    /\ halted = "none"
    /\ Len(pending) < MaxPending
    /\ pending' = Append(pending, event)
    /\ delivered_keys' = key_after(delivered_keys, event)
    /\ UNCHANGED <<memory, registry, stack, sub_pointer, i, program_counter,
                   pixel_map, timer, since_frame, ulp, clock,
                   frame_age, halted, call_sites, timer_start,
                   ticks, draws, key>>

\* the event delivered last
newest_event(queue) == queue[Len(queue)]

\* the event poll_iter returns next
next_event(queue) == Head(queue)

\* one turn of the for loop of main: Quit breaks out of 'running and the
\* process ends, every other event goes to input_handle
Poll ==
    /\ halted = "none"
    /\ pending # << >>
    /\ pending' = Tail(pending)
    /\ delivered_keys' = delivered_keys
    /\ IF next_event(pending).kind = "Quit"
       THEN /\ halted' = "quit"
            /\ UNCHANGED <<memory, registry, stack, sub_pointer, i,
                           program_counter, pixel_map, timer, since_frame, ulp, clock,
                           frame_age,
                           call_sites, timer_start, ticks, draws, key>>
       ELSE input_handle(next_event(pending))

\* the rest of the iteration, once poll_iter has returned None: the arms of
\* execute the program reaches
Run(dt) ==
    /\ pending = << >>
    /\ \/ WaitKeyDown(dt)
       \/ SkipIfKeyDown(dt)
       \/ SkipIfKeyUp(dt)
       \/ Jump(dt)

LoopNext ==
    \/ \E event \in LoopEvents : Deliver(event)
    \/ Poll
    \/ \E dt \in 0..MaxDt : Run(dt)

LoopSpec == LoopInit /\ [][LoopNext]_vars

-----------------------------------------------------------------------------
(* main after a long run: the elapsed time has grown so far that the f32     *)
(* values around it are ulp clock units apart (an f32 has 24 significant     *)
(* bits: the values are 2^-6 s apart from 2^17 s of elapsed time, 2^-5 s     *)
(* from 2^18 s).  The program keeps setting the timer, waits for it to run   *)
(* out and draws; it is taken up where a frame-boundary step has just ended  *)
(* at an elapsed time that is an f32 value                                   *)

Ulps == {1, 2, 4}

\* V0 = 3, timer = V0, wait until Fx07 reads 0, draw one row, start again
ClockRom == << \h6003, \hF015, \hF107, \h3100, \h1204, \hD001, \h1200 >>

ClockInit ==
    /\ memory = load(Bytes(ClockRom))
    /\ registry = ZeroRegs
    /\ i = 0
    /\ key = NoKeys
    /\ stack = [k \in 0..(StackSize - 1) |-> 0]
    /\ sub_pointer = 0
    /\ program_counter = StartAddr
    /\ pixel_map = [x \in 0..(ScreenW - 1) |-> [y \in 0..(ScreenH - 1) |-> 0]]
    /\ timer = 0
    /\ since_frame = 0
    /\ halted = "none"
    /\ call_sites = << >>
    /\ timer_start = 0
    /\ ticks = 0
    /\ draws = << >>
    /\ pending = << >>
    /\ delivered_keys = key
    /\ ulp \in Ulps
    /\ clock = 0
    /\ frame_age = 0

\* an iteration of main with no event in the queue: the arms of execute the
\* program reaches
Tick(dt) ==
    \/ NormalRegistry(dt)
    \/ SetTimer(dt)
    \/ SaveTimer(dt)
    \/ SkipIfEqualXN(dt)
    \/ Jump(dt)
    \/ Draw(dt)

ClockNext == \E dt \in 0..MaxDt : Tick(dt)

ClockSpec == ClockInit /\ [][ClockNext]_vars

-----------------------------------------------------------------------------
(* main running for ever on programs that clear and draw: the loop never     *)
(* ends by itself and the clock keeps advancing, so iterations whose         *)
(* frame-boundary flag is true keep occurring                                *)

\* clear and draw in a loop; draws of one and two rows, in and off the grid;
\* clear and draw between a timer set and a timer read
StallRoms ==
    { << \h00E0, \hD001, \h1200 >>,
      DrawRom(\h40, \hC0, 0, 0, 1),
      DrawRom(\hFF, \h00, 124, 63, 2),
      << \h6003, \hF015, \h00E0, \hF107, \hD001, \h1200 >> }

StallInit ==
    /\ \E rom \in StallRoms : memory = load(Bytes(rom))
    /\ registry = ZeroRegs
    /\ i = 0
    /\ key = NoKeys
    /\ stack = [k \in 0..(StackSize - 1) |-> 0]
    /\ sub_pointer = 0
    /\ program_counter = StartAddr
    /\ pixel_map = [x \in 0..(ScreenW - 1) |-> [y \in 0..(ScreenH - 1) |-> 0]]
    /\ timer = 0
    /\ since_frame = 0
    /\ halted = "none"
    /\ call_sites = << >>
    /\ timer_start = 0
    /\ ticks = 0
    /\ draws = << >>
    /\ pending = << >>
    /\ delivered_keys = key
    /\ ulp = 1
    /\ clock = 0
    /\ frame_age = 0

\* an iteration of main with no event in the queue: the arms of execute the
\* programs reach
Iterate(dt) ==
    \/ Clear(dt)
    \/ Draw(dt)
    \/ NormalRegistry(dt)
    \/ IndexRegistry(dt)
    \/ SetTimer(dt)
    \/ SaveTimer(dt)
    \/ Jump(dt)

\* an iteration that finds more than 1/60 s since the last frame
Frame == \E dt \in 0..MaxDt : allow_display(dt) /\ Iterate(dt)

StallNext == \E dt \in 0..MaxDt : Iterate(dt)

StallSpec == StallInit /\ [][StallNext]_vars /\ WF_vars(Frame)

-----------------------------------------------------------------------------
(* Properties *)

\* an iteration of main whose frame-boundary flag has the value `flag'
step(flag) == \E dt \in 0..MaxDt : allow_display(dt) = flag /\ execute(dt)

\* a step of Next that leaves the keypad alone and changes the state is an
\* iteration of main (execute never writes key, input_handle nothing else)
executes == key' = key /\ vars' # vars

\* C1: a 00EE executed at depth d + 1 returns to the instruction after the
\* 2nnn that was executed at depth d (call_sites records the address of each
\* active call), and restores the depth d: calls return in LIFO order.
C1_ReturnAfterCall ==
    [][(Arm("Return") /\ sub_pointer > 0 /\ executes)
         => /\ Len(call_sites) = sub_pointer
            /\ program_counter' = call_sites[sub_pointer] + 2
            /\ sub_pointer' = sub_pointer - 1
            /\ call_sites' = SubSeq(call_sites, 1, sub_pointer - 1)]_vars

\* C1 witness: every call of the chain of depth StackSize has returned but the
\* outermost, the last return landing after the second call
C1_Witness ==
    /\ halted = "none"
    /\ sub_pointer = 1
    /\ call_sites = << StartAddr >>
    /\ program_counter = StartAddr + 6
    /\ memory[StartAddr + 4 * StackSize] = \h00
    /\ memory[StartAddr + 4 * StackSize + 1] = \hEE
    /\ stack[1] = 0

\* C2: the depth stays within 0..StackSize; a 2nnn at depth StackSize and a
\* 00EE at depth 0 halt the machine and leave the stack slots, the stack
\* pointer and PC as they were.
C2_StackBounds ==
    [][/\ sub_pointer \in 0..StackSize
       /\ sub_pointer' \in 0..StackSize
       /\ (Arm("Subroutine") /\ sub_pointer = StackSize /\ executes)
            => (halted' # "none" /\ UNCHANGED <<stack, sub_pointer, program_counter>>)
       /\ (Arm("Return") /\ sub_pointer = 0 /\ executes)
            => (halted' # "none" /\ UNCHANGED <<stack, sub_pointer, program_counter>>)]_vars

\* C2 witness: the ninth nested call has halted the machine at depth StackSize
C2_Witness ==
    /\ halted = "subroutine: stack index out of bounds"
    /\ sub_pointer = StackSize
    /\ Len(call_sites) = StackSize

\* the newest draw of the history
last_draw == draws[Len(draws)]

\* the cell (x, y) was set before the newest draw and is unset now
Collided(x, y) == last_draw.before[x][y] = 1 /\ pixel_map[x][y] = 0

\* C3: after a draw VF is 1 if the draw turned some set cell off and 0 if not
\* (also when it toggled no cell at all).
C3_CollisionFlag ==
    draws # << >>
      => registry[15] = IF \E x \in 0..(ScreenW - 1), y \in 0..(ScreenH - 1) :
                              Collided(x, y)
                        THEN 1 ELSE 0

\* two draws of the history have the same I, the same sprite bytes, the same
\* Vx and Vy and the same n
SameSprite(a, b) ==
    a.vx = b.vx /\ a.vy = b.vy /\ a.n = b.n /\ a.i = b.i /\ a.rows = b.rows

\* the columns of row y that an 8x1 sprite at column x covers on the screen
RowCells(x) == {c \in x..(x + 7) : c < ScreenW}

\* C4: the second of two successive draws of the same sprite restores the
\* framebuffer the first one found; an 8x1 row of ones drawn twice on empty
\* cells leaves them unset, VF being 0 after the first draw and 1 after the
\* second.
C4_DrawTwice ==
    (Len(draws) = 2 /\ SameSprite(draws[1], draws[2]))
      => /\ pixel_map = draws[1].before
         /\ (/\ draws[1].n = 1
             /\ draws[1].rows[0] = 255
             /\ \A c \in RowCells(draws[1].vx % 64) :
                   draws[1].before[c][draws[1].vy % 32] = 0)
              => /\ draws[1].vf = 0
                 /\ registry[15] = 1
                 /\ \A c \in RowCells(draws[1].vx % 64) :
                       pixel_map[c][draws[1].vy % 32] = 0

\* C4 witness: a row of ones has been drawn twice in succession at the same
\* place, on cells that were empty
C4_Witness ==
    /\ Len(draws) = 2
    /\ SameSprite(draws[1], draws[2])
    /\ draws[1].n = 1
    /\ draws[1].rows[0] = 255
    /\ \A c \in RowCells(draws[1].vx % 64) : draws[1].before[c][draws[1].vy % 32] = 0
    /\ draws[2].before[draws[1].vx % 64][draws[1].vy % 32] = 1

\* C5: a draw changes the cell (x, y) only if some sprite bit that is 1, in
\* row r and column c (c = 0 the most significant bit), has
\* x = Vx mod 64 + c and y = Vy mod 32 + r: nothing wraps around; an 8-wide
\* row of ones at column 60 changes the columns 60..63 of its row and no other.
C5_NoWrap ==
    draws # << >>
      => LET d == last_draw
             px == d.vx % 64
             py == d.vy % 32
             Changed(x, y) == pixel_map[x][y] # d.before[x][y]
         IN /\ \A x \in 0..(ScreenW - 1), y \in 0..(ScreenH - 1) :
                 Changed(x, y)
                   => \E r \in 0..(d.n - 1), c \in 0..7 :
                         /\ x = px + c
                         /\ y = py + r
                         /\ (d.rows[r] \div Pow2(7 - c)) % 2 = 1
            /\ (px = 60 /\ d.n >= 1 /\ d.rows[0] = 255)
                 => \A x \in 0..(ScreenW - 1) : Changed(x, py) <=> x \in 60..63

\* C5 witness: a two-row sprite drawn at (60, 31) has changed column 63 of
\* row 31, its second row falling below the screen
C5_Witness ==
    /\ draws # << >>
    /\ last_draw.vx = 124
    /\ last_draw.vy = 63
    /\ last_draw.n = 2
    /\ last_draw.rows[0] = 255
    /\ last_draw.rows[1] = 255
    /\ pixel_map[63][31] # last_draw.before[63][31]

\* C6 as stated: a step whose flag is false changes neither the framebuffer
\* nor the delay timer, whatever the instruction.
C6_FlagFalseFreezes ==
    [][(pixel_map' # pixel_map \/ timer' # timer) => ~step(FALSE)]_vars

\* C6 amended: a step whose flag is false leaves the framebuffer unchanged and
\* never decrements the timer: the timer changes only if the instruction is
\* Fx15, which sets it to Vx.
C6_FlagFalseNoFrameEffect ==
    [][((pixel_map' # pixel_map \/ timer' # timer) /\ step(FALSE))
         => /\ pixel_map' = pixel_map
            /\ Arm("SetTimer")
            /\ timer' = registry[opcode.c1]]_vars

\* C6 witness: Fx15 and Fx07 have both run on steps whose flag was false (no
\* frame boundary since the timer was set to V0 = 2), and V1 holds the timer
C6_Witness ==
    /\ halted = "none"
    /\ timer_start = 2
    /\ registry[0] = 2
    /\ ticks = 0
    /\ timer = 2
    /\ registry[1] = 2
    /\ since_frame > 0

\* C7: after N frame-boundary steps without Fx15 the timer is max(0, t - N),
\* t being the timer when the last Fx15 completed (or the initial timer).
\* (ticks is min(N, t + 1), and max(0, t - min(N, t + 1)) = max(0, t - N).)
C7_TimerCountdown == timer = Max(0, timer_start - ticks)

\* C7 witness: three frame-boundary steps after the timer was set to 2, one of
\* them blocked on Fx0A, and the timer has stopped at 0
C7_Witness ==
    /\ timer_start = 2
    /\ ticks = 3
    /\ timer = 0
    /\ Arm("WaitKeyDown")
    /\ ~any_key

\* the instruction at PC sets PC itself: a jump, a call, a return, a skip
\* whose condition holds, or Fx0A while no key is held
SetsPc ==
    LET o == opcode
    IN \/ o.op \in {"Jump", "JumpOffset", "Subroutine", "Return"}
       \/ o.op = "SkipIfEqualXN" /\ registry[o.c1] = (o.c2 * 16 + o.c3)
       \/ o.op = "SkipIfNotEqualXN" /\ registry[o.c1] # (o.c2 * 16 + o.c3)
       \/ o.op = "SkipIfEqualXY" /\ registry[o.c1] = registry[o.c2]
       \/ o.op = "SkipIfNotEqualXY" /\ registry[o.c1] # registry[o.c2]
       \/ o.op = "SkipIfKeyDown" /\ registry[o.c1] < NumKeys /\ key[registry[o.c1]]
       \/ o.op = "SkipIfKeyUp" /\ registry[o.c1] < NumKeys /\ ~key[registry[o.c1]]
       \/ o.op = "WaitKeyDown" /\ \A k \in 0..(NumKeys - 1) : ~key[k]

C9_WaitKey ==
    [][(Arm("WaitKeyDown") /\ executes)
         => IF \A k \in 0..(NumKeys - 1) : ~key[k]
            THEN UNCHANGED <<program_counter, registry, i, stack, sub_pointer, memory>>
            ELSE /\ program_counter' = program_counter + 2
                 /\ \E k \in 0..(NumKeys - 1) :
                       /\ key[k]
                       /\ \A j \in 0..(k - 1) : ~key[j]
                       /\ registry' = [registry EXCEPT ![opcode.c1] = k]
                 /\ UNCHANGED <<i, stack, sub_pointer, memory>>]_vars

\* C9 witness: Fx0A (x = 2, at 0x206) has completed with the keys 1 and 2 held
C9_Witness ==
    /\ halted = "none"
    /\ program_counter = StartAddr + 8
    /\ memory[StartAddr + 6] = \hF2 /\ memory[StartAddr + 7] = \h0A
    /\ key[1] /\ key[2]
    /\ registry[2] = 1

\* C10: no step uses a memory index outside 0..0xFFF (every address being
\* reduced modulo 0x1000): the machine never halts on a memory index.
C10_MemoryInBounds ==
    halted \notin {"fetch: index out of bounds",
                   "save_to_memory: slice index out of range",
                   "load_from_memory: slice index out of range",
                   "save_digits: index out of bounds",
                   "draw: index out of bounds"}

\* C11: in every state the program reaches I is within 0..0xFFF, and Fx1E
\* sets I to (I + Vx) mod 0x1000.
C11_IndexWraps ==
    [][executes
         => /\ i' \in 0..(MemSize - 1)
            /\ Arm("AddVxToI") => i' = (i + registry[opcode.c1]) % MemSize]_vars

\* the program at 0x200 is RoundTrip(x, nnn), for the x and nnn its words name
RoundTripLoaded ==
    LET x == memory[StartAddr + 2] % 16
        nnn == (memory[StartAddr] % 16) * 256 + memory[StartAddr + 1]
    IN \A k \in 1..14 : memory[StartAddr + k - 1] = Bytes(RoundTrip(x, nnn))[k]

\* C12: when the cells I..I+x lie inside the memory (I + x <= 0xFFF), Fx55
\* completes, copies V0..Vx to them, changes no other cell and no register,
\* and adds x + 1 to I; Fx65 completes, copies the cells to V0..Vx, changes no
\* other register and no cell, and adds x + 1 to I; so the Fx65 that ends the
\* round trip (Fx55, V0 and Vx zeroed, I reset, Fx65) restores V0..Vx.
C12_RoundTrip ==
    [][executes
         => /\ (Arm("SaveToMemory") /\ i + opcode.c1 <= MemSize - 1)
                 => /\ halted' = "none"
                    /\ i' = i + opcode.c1 + 1
                    /\ registry' = registry
                    /\ memory' = [a \in 0..(MemSize - 1) |->
                                    IF a \in i..(i + opcode.c1)
                                    THEN registry[a - i] ELSE memory[a]]
            /\ (Arm("LoadFromMemory") /\ i + opcode.c1 <= MemSize - 1)
                 => /\ halted' = "none"
                    /\ i' = i + opcode.c1 + 1
                    /\ memory' = memory
                    /\ registry' = [k \in 0..(NumRegs - 1) |->
                                      IF k <= opcode.c1
                                      THEN memory[i + k] ELSE registry[k]]
                    /\ (RoundTripLoaded /\ program_counter = StartAddr + 10)
                         => registry' = [k \in 0..(NumRegs - 1) |-> 17 + k]]_vars

\* the variant the instruction table gives the word hex: one per tabulated
\* pattern, "None" for every word that matches no pattern
Tabulated(hex) ==
    LET c0 == hex \div 4096
        c3 == hex % 16
        v1 == hex % 256
    IN CASE hex = \h00E0 -> "Clear"
         [] hex = \h00EE -> "Return"
         [] c0 = 1 -> "Jump"
         [] c0 = 2 -> "Subroutine"
         [] c0 = 3 -> "SkipIfEqualXN"
         [] c0 = 4 -> "SkipIfNotEqualXN"
         [] c0 = 5 /\ c3 = 0 -> "SkipIfEqualXY"
         [] c0 = 6 -> "NormalRegistry"
         [] c0 = 7 -> "AddRegistry"
         [] c0 = 8 /\ c3 = 0 -> "Set"
         [] c0 = 8 /\ c3 = 1 -> "Or"
         [] c0 = 8 /\ c3 = 2 -> "And"
         [] c0 = 8 /\ c3 = 3 -> "Xor"
         [] c0 = 8 /\ c3 = 4 -> "Add"
         [] c0 = 8 /\ c3 = 5 -> "Subtract"
         [] c0 = 8 /\ c3 = 6 -> "ShiftRight"
         [] c0 = 8 /\ c3 = 7 -> "SubtractRev"
         [] c0 = 8 /\ c3 = 14 -> "ShiftLeft"
         [] c0 = 9 /\ c3 = 0 -> "SkipIfNotEqualXY"
         [] c0 = 10 -> "IndexRegistry"
         [] c0 = 11 -> "JumpOffset"
         [] c0 = 13 -> "Draw"
         [] c0 = 14 /\ v1 = \h9E -> "SkipIfKeyDown"
         [] c0 = 14 /\ v1 = \hA1 -> "SkipIfKeyUp"
         [] c0 = 15 /\ v1 = \h07 -> "SaveTimer"
         [] c0 = 15 /\ v1 = \h0A -> "WaitKeyDown"
         [] c0 = 15 /\ v1 = \h15 -> "SetTimer"
         [] c0 = 15 /\ v1 = \h1E -> "AddVxToI"
         [] c0 = 15 /\ v1 = \h33 -> "SaveDigits"
         [] c0 = 15 /\ v1 = \h55 -> "SaveToMemory"
         [] c0 = 15 /\ v1 = \h65 -> "LoadFromMemory"
         [] OTHER -> "None"

\* C13: the word at PC decodes to the variant of the pattern it matches and
\* to the unrecognized variant if it matches none; a step on an unrecognized
\* word halts and changes no machine state.
C13_DecodeExact ==
    [][(executes /\ halted = "none" /\ ~fetch_faults)
         => /\ opcode.op = Tabulated(fetch.v0 * 256 + fetch.v1)
            /\ opcode.op = "None" => (halted' # "none" /\ machine' = machine)]_vars

\* the words of the reachable states that decode to another variant than the
\* table's all decode as the low nibble alone says: 0nn0 as 00E0, 0nnE as
\* 00EE, 5xyN as 5xy0 and 9xyN as 9xy0
C13_DecodeLoose ==
    (halted = "none" /\ ~fetch_faults
       /\ opcode.op # Tabulated(fetch.v0 * 256 + fetch.v1))
      => LET hex == fetch.v0 * 256 + fetch.v1
         IN \/ hex \div 4096 = 0 /\ hex % 16 = 0 /\ opcode.op = "Clear"
            \/ hex \div 4096 = 0 /\ hex % 16 = 14 /\ opcode.op = "Return"
            \/ hex \div 4096 = 5 /\ opcode.op = "SkipIfEqualXY"
            \/ hex \div 4096 = 9 /\ opcode.op = "SkipIfNotEqualXY"

\* the flag-setting ALU variants
AluOps == {"Add", "Subtract", "SubtractRev", "ShiftRight", "ShiftLeft"}

\* C14: 8xy4, 8xy5, 8xy7, 8xy6 and 8xyE read Vx and Vy, then set Vx to the
\* result and after it VF to the flag: the sum mod 256 and the carry, the
\* differences mod 256 and 1 iff no borrow, Vy >> 1 and the low bit of Vy,
\* (Vy << 1) mod 256 and the high bit of Vy; no other register changes.
C14_AluFlags ==
    [][(executes /\ halted = "none" /\ ~fetch_faults /\ opcode.op \in AluOps)
         => LET op == opcode.op
                x == opcode.c1
                vx == registry[opcode.c1]
                vy == registry[opcode.c2]
                result == CASE op = "Add" -> (vx + vy) % 256
                            [] op = "Subtract" -> (256 + vx - vy) % 256
                            [] op = "SubtractRev" -> (256 + vy - vx) % 256
                            [] op = "ShiftRight" -> vy \div 2
                            [] op = "ShiftLeft" -> (vy * 2) % 256
                flag == CASE op = "Add" -> IF vx + vy > 255 THEN 1 ELSE 0
                          [] op = "Subtract" -> IF vx >= vy THEN 1 ELSE 0
                          [] op = "SubtractRev" -> IF vy >= vx THEN 1 ELSE 0
                          [] op = "ShiftRight" -> vy % 2
                          [] op = "ShiftLeft" -> vy \div 128
            IN registry' = [k \in 0..(NumRegs - 1) |->
                              IF k = 15 THEN flag
                              ELSE IF k = x THEN result
                              ELSE registry[k]]]_vars

\* C14 witness: 8F14 has completed with V1 = 1 and left VF = 1: the carry of
\* 255 + 1, not the sum 0 (every other VF drawn gives no carry and VF = 0)
C14_Witness ==
    /\ halted = "none"
    /\ memory[StartAddr] = \h8F /\ memory[StartAddr + 1] = \h14
    /\ program_counter = StartAddr + 2
    /\ registry[1] = 1
    /\ registry[15] = 1

\* C15: 7xnn with x other than 0xF sets Vx to (Vx + nn) mod 256 and changes
\* no other register, VF included; so the 7x(256 - nn) mod 256 that follows
\* 6xnn leaves Vx = 0.
C15_WrappingAdd ==
    [][(executes /\ Arm("AddRegistry") /\ opcode.c1 # 15)
         => LET x == opcode.c1
                nn == opcode.c2 * 16 + opcode.c3
            IN /\ registry' = [registry EXCEPT ![x] = (registry[x] + nn) % 256]
               /\ registry'[15] = registry[15]
               /\ (/\ program_counter = StartAddr + 2
                   /\ memory[StartAddr] = \h60 + x
                   /\ (memory[StartAddr + 1] + nn) % 256 = 0)
                    => registry'[x] = 0]_vars

\* C15 witness: 6E81 and then 7E7F have run: V14 was 129, wrapped to 0, and
\* VF still holds the 9 it held before
C15_Witness ==
    /\ halted = "none"
    /\ memory[StartAddr] = \h6E /\ memory[StartAddr + 1] = \h81
    /\ memory[StartAddr + 2] = \h7E /\ memory[StartAddr + 3] = \h7F
    /\ program_counter = StartAddr + 4
    /\ registry[14] = 0
    /\ registry[15] = 9

\* the conditional skips
SkipOps == {"SkipIfEqualXN", "SkipIfNotEqualXN", "SkipIfEqualXY",
            "SkipIfNotEqualXY", "SkipIfKeyDown", "SkipIfKeyUp"}

\* the word at PC is one of 3xnn, 4xnn, 5xy0, 9xy0, Ex9E and ExA1, the last
\* two with Vx in 0..15
SkipAtPc ==
    /\ halted = "none" /\ ~fetch_faults
    /\ opcode.op \in SkipOps
    /\ opcode.op \in {"SkipIfEqualXY", "SkipIfNotEqualXY"} => opcode.c3 = 0
    /\ opcode.op \in {"SkipIfKeyDown", "SkipIfKeyUp"} => registry[opcode.c1] \in 0..15

\* the condition of the skip at PC
SkipCondition ==
    LET op == opcode.op
        vx == registry[opcode.c1]
        vy == registry[opcode.c2]
        nn == opcode.c2 * 16 + opcode.c3
    IN CASE op = "SkipIfEqualXN" -> vx = nn
         [] op = "SkipIfNotEqualXN" -> vx # nn
         [] op = "SkipIfEqualXY" -> vx = vy
         [] op = "SkipIfNotEqualXY" -> vx # vy
         [] op = "SkipIfKeyDown" -> key[vx]
         [] op = "SkipIfKeyUp" -> ~key[vx]

\* C18: a conditional skip adds 4 to PC when its condition holds and 2 when
\* it does not, and changes no register, nor I, the stack, the memory or the
\* framebuffer.
C18_Skips ==
    [][(executes /\ SkipAtPc)
         => /\ program_counter' = program_counter + (IF SkipCondition THEN 4 ELSE 2)
            /\ UNCHANGED <<registry, i, stack, sub_pointer, memory, pixel_map>>]_vars

\* C18 witness: E39E has skipped to 0x204 with V3 = 15 and key 15 held
C18_Witness ==
    /\ halted = "none"
    /\ memory[StartAddr] = \hE3 /\ memory[StartAddr + 1] = \h9E
    /\ registry[3] = 15
    /\ key[15]
    /\ program_counter = StartAddr + 4

\* C19: a step on Ex9E or ExA1 never fails, whatever Vx holds; a step fails
\* only on an unrecognized word, on 2nnn with the stack full or on 00EE with
\* the stack empty.
C19_KeySkipsTotal ==
    [][(executes /\ halted = "none")
         => /\ (Arm("SkipIfKeyDown") \/ Arm("SkipIfKeyUp")) => halted' = "none"
            /\ halted' # "none"
                 => \/ Arm("None")
                    \/ Arm("Subroutine") /\ sub_pointer = StackSize
                    \/ Arm("Return") /\ sub_pointer = 0]_vars

\* the cells a step has changed
ChangedCells == {a \in 0..(MemSize - 1) : memory'[a] # memory[a]}

\* C20: a step changes memory only on Fx55 and on Fx33; Fx55 changes at most
\* the x + 1 cells from I on, Fx33 at most the three cells from I on, which
\* receive the hundreds, tens and units digit of Vx, and leaves I unchanged
\* (a cell is named by its address modulo 0x1000, as the memory is addressed).
C20_MemoryWrites ==
    [][(executes /\ halted = "none" /\ ~fetch_faults)
         => /\ memory' # memory => opcode.op \in {"SaveToMemory", "SaveDigits"}
            /\ (opcode.op = "SaveToMemory" /\ memory' # memory)
                 => ChangedCells \subseteq {(i + k) % MemSize : k \in 0..opcode.c1}
            /\ opcode.op = "SaveDigits"
                 => LET vx == registry[opcode.c1]
                        digit == << vx \div 100, (vx \div 10) % 10, vx % 10 >>
                    IN /\ i' = i
                       /\ memory' # memory
                            => \A a \in ChangedCells :
                                  \E k \in 0..2 : /\ a = (i + k) % MemSize
                                                  /\ memory'[a] = digit[k + 1]
                       /\ halted' = "none"
                            => \A k \in 0..2 : memory'[(i + k) % MemSize] = digit[k + 1]]_vars

\* C20 witness: F133 has completed with V1 = 129 and I = 0xFFD: the last three
\* cells of memory hold 1, 2, 9
C20_Witness ==
    /\ halted = "none"
    /\ memory[StartAddr] = \hF1 /\ memory[StartAddr + 1] = \h33
    /\ program_counter = StartAddr + 2
    /\ i = 4093
    /\ registry[1] = 129
    /\ memory[4093] = 1 /\ memory[4094] = 2 /\ memory[4095] = 9


\* the keypad after input_handle has handled the events of `queue', first to
\* last, starting from the keypad k
RECURSIVE keys_after_all(_, _)
keys_after_all(k, queue) ==
    IF queue = << >> THEN k
    ELSE keys_after_all(key_after(k, Head(queue)), Tail(queue))

\* C16: the events still in the queue, handled in delivery order, bring the
\* keypad to the keypad of all delivered events (none is dropped, none is
\* handled out of order, the last write of a key wins); a step of the machine
\* runs only when the queue is empty, on the keypad of all delivered events,
\* and never writes the keypad; Ex9E, ExA1 and Fx0A then act on that keypad.
C16_EventsBeforeStep ==
    [][/\ (halted = "none" /\ \A n \in 1..Len(pending) : pending[n].kind # "Quit")
          => keys_after_all(key, pending) = delivered_keys
       /\ (\E dt \in 0..MaxDt : execute(dt))
          => /\ pending = << >>
             /\ key = delivered_keys
             /\ key' = key
             /\ Arm("SkipIfKeyDown") =>
                  program_counter' = program_counter
                      + (IF delivered_keys[registry[opcode.c1]] THEN 4 ELSE 2)
             /\ Arm("SkipIfKeyUp") =>
                  program_counter' = program_counter
                      + (IF delivered_keys[registry[opcode.c1]] THEN 2 ELSE 4)
             /\ Arm("WaitKeyDown") =>
                  IF \E k \in 0..(NumKeys - 1) : delivered_keys[k]
                  THEN /\ program_counter' = program_counter + 2
                       /\ delivered_keys[registry'[opcode.c1]]
                  ELSE /\ program_counter' = program_counter
                       /\ registry' = registry]_vars

\* Fx0A saw key 1 held and Ex9E, one step later, saw it released: the key-up
\* came between the two steps and the queue is empty again
C16_Witness ==
    /\ program_counter = StartAddr + 4
    /\ registry[0] = 1
    /\ ~key[1]
    /\ pending = << >>
    /\ halted = "none"

\* a Quit event was polled with a key event still behind it
C16_QuitSeen == halted = "quit" /\ pending # << >>

\* ExA1 saw the key held that Fx0A reported
C16_HeldSeen ==
    /\ program_counter = StartAddr + 8
    /\ key[1]
    /\ pending = << >>


\* C17: the frame-boundary flag of a step is true exactly when more than
\* 1/60 s (FrameUnits clock units) of time has passed since the last step
\* whose flag was true; so the timer is decremented, and the last-frame time
\* moved, only by steps that come more than 1/60 s after the previous such
\* step, and a step with the flag false still executes a register load.
C17_FrameScheduler ==
    [][\A dt \in 0..MaxDt :
         (execute(dt) /\ halted' = "none") =>
           /\ allow_display(dt) <=> frame_age + dt > FrameUnits
           /\ timer' < timer => frame_age + dt > FrameUnits
           /\ ~allow_display(dt) => since_frame' = since_frame + time_step(dt)
           /\ (Arm("NormalRegistry") /\ ~allow_display(dt))
                => registry'[opcode.c1] = opcode.raw.v1]_vars


\* the addresses of the instructions of the programs
ProgramAddrs == {StartAddr + 2 * k : k \in 0..11}

HeldOps == {"Clear", "Draw"}

\* C21: a 00E0 or Dxyn met by a step whose frame-boundary flag is false leaves
\* the whole machine state unchanged, PC included; met by a step whose flag is
\* true it takes effect once (the buffer is cleared, or the sprite is drawn
\* and VF set) and PC advances by 2; and with iterations on a frame boundary
\* occurring again and again, a 00E0 or Dxyn at PC = a leads to PC = a + 2.
C21_StallAndResume ==
    /\ [][\A dt \in 0..MaxDt :
            (execute(dt) /\ halted = "none" /\ ~fetch_faults /\ opcode.op \in HeldOps)
              => IF allow_display(dt)
                 THEN halted' = "none"
                        => /\ program_counter' = program_counter + 2
                           /\ Arm("Clear") =>
                                /\ \A x \in 0..(ScreenW - 1), y \in 0..(ScreenH - 1) :
                                      pixel_map'[x][y] = 0
                                /\ registry' = registry
                           /\ Arm("Draw") =>
                                LET d == draw(opcode.c1, opcode.c2, opcode.c3)
                                IN /\ pixel_map' = d.pm
                                   /\ registry' = [registry EXCEPT ![15] = d.vf]
                           /\ UNCHANGED <<memory, stack, key, sub_pointer, i>>
                 ELSE machine' = machine /\ halted' = "none"]_vars
    /\ \A a \in ProgramAddrs :
          (program_counter = a /\ halted = "none" /\ opcode.op \in HeldOps)
            ~> (program_counter = a + 2 \/ halted # "none")

\* a draw is held: the draw before it was executed on a frame boundary, time
\* has passed since and no step has found the flag true
C21_Witness ==
    /\ Arm("Draw")
    /\ draws # << >>
    /\ since_frame > 0
    /\ \E x \in 0..(ScreenW - 1), y \in 0..(ScreenH - 1) : pixel_map[x][y] = 1


\* C22: Fx15 on a frame-boundary step leaves the timer at max(0, Vx - 1), on
\* any other step at Vx; Fx07 copies into Vx the timer as it is before the
\* step, and the timer is decremented after that when the step is on a frame
\* boundary: the decrement comes after the instruction's own effect.
C22_DecrementLast ==
    [][\A dt \in 0..MaxDt :
         execute(dt) =>
           /\ Arm("SetTimer") =>
                timer' = IF allow_display(dt)
                         THEN Max(0, registry[opcode.c1] - 1)
                         ELSE registry[opcode.c1]
           /\ Arm("SaveTimer") =>
                /\ registry' = [registry EXCEPT ![opcode.c1] = timer]
                /\ timer' = IF allow_display(dt) THEN Max(0, timer - 1) ELSE timer]_vars

\* Fx15 with V0 = 255 on a frame boundary, then Fx07 on a frame boundary: the
\* timer went 254, 253 and V1 holds 254
C22_Witness ==
    /\ halted = "none"
    /\ program_counter = StartAddr + 4
    /\ registry[0] = 255
    /\ registry[1] = 254
    /\ timer = 253

\* Fx15 with V0 = 2 on a step off the frame boundary: the timer is 2
C22_OffBoundary ==
    /\ halted = "none"
    /\ program_counter = StartAddr + 2
    /\ registry[0] = 2
    /\ timer = 2
    /\ since_frame > 0

====
